---------------------------- MODULE Spec2Model ----------------------------
(***************************************************************************)
(* One-time secret store (src/dynamo.go): the Secret record, its deposit   *)
(* (Save) and the Reveal protocol (query, origin check, existence check,   *)
(* decode, delete), run by concurrent callers against one key-value store  *)
(* with a TTL attribute.                                                   *)
(*                                                                         *)
(* Strings that the code inspects byte by byte (identifiers, base64        *)
(* payloads) are sequences of ASCII codes.  Time is in seconds since the   *)
(* epoch, as time.Now().Unix() gives it.                                   *)
(***************************************************************************)
EXTENDS Integers, Sequences, FiniteSets, TLC

(***************************************************************************)
(* Bounds of the model.                                                    *)
(***************************************************************************)
NumProcs == 2      \* concurrent callers of Reveal
MaxTicks == 1      \* how many times the clock advances
TickHours == 73    \* hours that pass at each advance of the clock

(***************************************************************************)
(* Program constants.                                                      *)
(***************************************************************************)
IdLen == 16            \* len(id) != 16
HourSecs == 3600       \* time.Hour, in the seconds of Unix()
NewSecretHours == 72   \* NewSecret: default 3 days lifetime
SaveHours == 24        \* Save: default when Expire is zero
MinHours == 1          \* SetTimeout: s.Hours < 1
MaxHours == 72         \* SetTimeout: s.Hours > 72

Procs == 1..NumProcs

(***************************************************************************)
(* Identifiers.  StrAt(n, k, c) is n characters, all '0' but c at place k. *)
(***************************************************************************)
StrAt(n, k, c) == [i \in 1..n |-> IF i = k THEN c ELSE 48]

StrOf(n, c) == StrAt(n, n, c)

\* what GetRandomId supplies: "0000000000000001", "000000000000000a"
GenIds == {StrOf(IdLen, 49), StrOf(IdLen, 97)}

\* the identifiers callers pass to Reveal: those, "000000000000000g" and
\* "000000000000000_"
RevealIds == GenIds \cup {StrOf(IdLen, 103), StrOf(IdLen, 95)}

\* characters tried in an identifier (SpecIds):
\*   '0' '9' 'a' 'f' 'g' 'z' 'A' 'F' 'G' 'Z' '_' '-' ' ' '/' ':' '@' '[' '`' '{' DEL
IdChars == {48, 57, 97, 102, 103, 122, 65, 70, 71, 90, 95, 45, 32, 47, 58, 64, 91, 96, 123, 127}

\* identifiers of 15, 16 and 17 characters with one of those in the first
\* or the fifteenth place, and the empty identifier
ManyIds ==
    {StrAt(n, k, c) : n \in {IdLen - 1, IdLen, IdLen + 1}, k \in {1, IdLen - 1}, c \in IdChars}
      \cup {<< >>} \cup GenIds

\* requester addresses, as net.IP.String() renders them
Addrs == {"10.0.0.1", "10.0.0.2"}

\* what a depositor puts in Secret.Ip
Origins == {"", "10.0.0.1"}

\* payloads handed to Save: "cDE=" (decodes to "p1"), "cD=E" (does not
\* decode), "\n" (decodes to nothing)
Payloads == {<<99, 68, 69, 61>>, <<99, 68, 61, 69>>, <<10>>}

\* the hour counts a client sends
HourChoices == {-1, 0, 1, 72, 73}

(***************************************************************************)
(* regexp.MatchString(`\W|[g-zA-Z]`, id)                                   *)
(***************************************************************************)
IsWordChar(c) == c \in 48..57 \/ c \in 65..90 \/ c \in 97..122 \/ c = 95

NotHexChar(c) == ~IsWordChar(c) \/ c \in 103..122 \/ c \in 65..90

NotHex(str) == \E i \in 1..Len(str) : NotHexChar(str[i])

\* (mutant: the length is not checked)
BadIdAnyLength(str) == NotHex(str)

BadId(str) == Len(str) # IdLen \/ NotHex(str)

(***************************************************************************)
(* base64.StdEncoding.DecodeString: '\r' and '\n' are skipped, the input   *)
(* is read in quanta of four characters, '=' pads the last quantum only.   *)
(* The result is [bad |-> an error was returned, out |-> the bytes].       *)
(***************************************************************************)
B64Value(c) ==
    IF c \in 65..90 THEN c - 65
    ELSE IF c \in 97..122 THEN c - 71
    ELSE IF c \in 48..57 THEN c + 4
    ELSE IF c = 43 THEN 62
    ELSE IF c = 47 THEN 63
    ELSE -1

IsB64(c) == B64Value(c) >= 0

B64Bytes(q, n) ==
    LET v(i) == IF IsB64(q[i]) THEN B64Value(q[i]) ELSE 0
        val == v(1) * 262144 + v(2) * 4096 + v(3) * 64 + v(4)
        all == <<val \div 65536, (val \div 256) % 256, val % 256>>
    IN SubSeq(all, 1, n)

RECURSIVE DecodeQuanta(_)
DecodeQuanta(str) ==
    IF Len(str) = 0 THEN [bad |-> FALSE, out |-> << >>]
    ELSE IF Len(str) < 4 THEN [bad |-> TRUE, out |-> << >>]
    ELSE
      LET q == SubSeq(str, 1, 4)
          rest == SubSeq(str, 5, Len(str))
      IN IF IsB64(q[1]) /\ IsB64(q[2]) /\ IsB64(q[3]) /\ IsB64(q[4])
         THEN LET r == DecodeQuanta(rest)
              IN [bad |-> r.bad, out |-> B64Bytes(q, 3) \o r.out]
         ELSE IF IsB64(q[1]) /\ IsB64(q[2]) /\ IsB64(q[3]) /\ q[4] = 61 /\ Len(rest) = 0
         THEN [bad |-> FALSE, out |-> B64Bytes(q, 2)]
         ELSE IF IsB64(q[1]) /\ IsB64(q[2]) /\ q[3] = 61 /\ q[4] = 61 /\ Len(rest) = 0
         THEN [bad |-> FALSE, out |-> B64Bytes(q, 1)]
         ELSE [bad |-> TRUE, out |-> << >>]

NotNewline(c) == c # 10 /\ c # 13

DecodeString(str) == DecodeQuanta(SelectSeq(str, NotNewline))


(***************************************************************************)
(* The Secret struct: the fields the code reads.  HasPass, Hint, Tag, Iv,   *)
(* PwTag and PwIv are opaque to it and copied as Message is; Err is never  *)
(* read.                                                                   *)
(***************************************************************************)
Nil == "nil"

ZeroSecret ==
    [Secret |-> << >>, Expire |-> 0, Hours |-> 0, Message |-> << >>, Ip |-> ""]

\* the Revealed struct, zero-valued as the named result `revealed` starts
ZeroRevealed == [Secret |-> << >>, Exists |-> FALSE]

\* errors the store's client returns (a failed or timed-out request), and
\* the error of dynamodbattribute.UnmarshalListOfMaps
RequestError == "RequestError"
UnmarshalError == "UnmarshalError"
StoreErrors == {RequestError, UnmarshalError}

\* the error of json.Unmarshal into Secret (an attribute of the item does not
\* fit its field)
JsonError == "UnmarshalTypeError"

\* errors.New(...) of the code
ErrBadId == "bad id"
ErrNoItems == "no items found"
ErrNotFound == "not found"
ErrDecode == "could not decode secret"
ErrDecodeEmpty == "could not decode secret, got 0 chars"
ErrExpiration == "invalid expiration"
ErrRandom == "random id failed"

VARIABLES
    store,      \* the table: key -> the items under it (none or one)
    now,        \* time.Now().UTC().Unix()
    ticks,      \* advances of the clock so far
    sec,        \* the depositor's Secret object (its Message outside Save left out)
    saveErr,    \* what the depositor's last SetTimeout / NewId / Save returned
    created,    \* <<t>> while the depositor's object is as NewSecret made it at
                \* time t with no SetTimeout since; << >> otherwise
    pc,         \* per caller of Reveal: "idle", "delete" (between Query and DeleteItem), "done"
    id, ip, reveal,   \* Reveal's arguments
    s,          \* Reveal's local s, the record read
    revealed, err,    \* Reveal's results
    queries, deletes, \* store calls the current Reveal call has issued
    life,       \* per identifier: "Absent", "Stored", "Revealed", "Expired"
    deposited   \* per identifier, while Stored: the payload and origin the depositor gave

secVars == <<sec, saveErr, created>>
callVars == <<pc, id, ip, reveal, s, revealed, err, queries, deletes>>
ghostVars == <<life, deposited>>
vars == <<store, now, ticks, sec, saveErr, created, pc, id, ip, reveal, s, revealed, err,
          queries, deletes, life, deposited>>

(***************************************************************************)
(* The store gateway: PutItem, Query by key, DeleteItem by key, TTL.       *)
(***************************************************************************)
\* db.PutItem: the item replaces whatever is under its key
PutItem(st, item) == [st EXCEPT ![item.Secret] = <<item>>]

\* db.Query with the key condition EQ id: the items under the key
Query(st, key) == IF key \in DOMAIN st THEN st[key] ELSE << >>

\* (mutant: the delete is not restricted to the key)
DeleteItemAll(st, key) == [k \in DOMAIN st |-> << >>]

\* db.DeleteItem: no condition, so a missing key is no error
DeleteItem(st, key) == IF key \in DOMAIN st THEN [st EXCEPT ![key] = << >>] ELSE st

\* the TTL attribute: the store may remove an item once its Expire has passed
Expired(item, t) == item.Expire < t

(***************************************************************************)
(* Secret Record Manager                                                   *)
(***************************************************************************)
\* identifiers GetRandomId may return: none that a stored record uses
FreshIds(st) == {k \in GenIds : st[k] = << >>}

\* (mutant: Expire is kept in milliseconds)
NewSecretOfMillis(t, rid) ==
    [ZeroSecret EXCEPT !.Expire = (t + NewSecretHours * HourSecs) * 1000, !.Secret = rid]

\* NewSecret, with GetRandomId returning (rid, nil) or ("", err)
NewSecretOf(t, rid) ==
    [ZeroSecret EXCEPT !.Expire = t + NewSecretHours * HourSecs, !.Secret = rid]

\* (mutant: zero hours are accepted)
BadHoursZeroAllowed(h) == h < 0 \/ h > MaxHours

\* SetTimeout's range check
BadHours(h) == h < MinHours \/ h > MaxHours

\* (mutant: the hours are taken for days)
TimeoutOfDays(t, h) == t + h * 24 * HourSecs

\* SetTimeout's new Expire
TimeoutOf(t, h) == t + h * HourSecs

\* (mutant: the payload is not stored in the record)
SaveRecordNoMessage(rec, t, b64) ==
    [rec EXCEPT !.Expire = IF rec.Expire = 0 THEN t + SaveHours * HourSecs ELSE rec.Expire]

\* (mutant: Save always applies its default Expire)
SaveRecordDefaultAlways(rec, t, b64) ==
    [rec EXCEPT !.Expire = t + SaveHours * HourSecs, !.Message = b64]

\* Save: the record as it is marshalled for PutItem
SaveRecord(rec, t, b64) ==
    [rec EXCEPT !.Expire = IF rec.Expire = 0 THEN t + SaveHours * HourSecs ELSE rec.Expire,
                !.Message = b64]

\* a new object replaces the depositor's; NewSecret returns no error (a
\* failed GetRandomId leaves Secret empty)
NewSecret ==
    /\ \E rid \in FreshIds(store) \cup {<< >>} :
         /\ sec' = NewSecretOf(now, rid)
         /\ saveErr' = Nil
         /\ created' = <<now>>
    /\ UNCHANGED <<store, now, ticks, callVars, ghostVars>>

NewId ==
    /\ \E rid \in FreshIds(store) \cup {<< >>} :
         /\ sec' = [sec EXCEPT !.Secret = rid]
         /\ saveErr' = IF rid = << >> THEN ErrRandom ELSE Nil
    /\ UNCHANGED <<store, now, ticks, created, callVars, ghostVars>>

\* the client fills in the fields it sends: hours, origin address
SetFields(hours, origins) ==
    /\ \E h \in hours, o \in origins :
         sec' = [sec EXCEPT !.Hours = h, !.Ip = o]
    /\ UNCHANGED <<store, now, ticks, saveErr, created, callVars, ghostVars>>

SetTimeout ==
    /\ IF BadHours(sec.Hours)
       THEN sec' = sec /\ saveErr' = ErrExpiration /\ created' = created
       ELSE /\ sec' = [sec EXCEPT !.Expire = TimeoutOf(now, sec.Hours)]
            /\ saveErr' = Nil
            /\ created' = << >>
    /\ UNCHANGED <<store, now, ticks, callVars, ghostVars>>

\* Save: one PutItem, which fails (perr) or writes the record.  A record
\* without a key is refused by the store.  The object's Message is written
\* here and read by nothing but this call's marshalling (the next Save
\* overwrites it first), so the object is kept without it.
Save(payloads) ==
    \E b64 \in payloads, perr \in {Nil, RequestError} :
      LET rec == SaveRecord(sec, now, b64)
          e == IF rec.Secret \notin DOMAIN store THEN RequestError ELSE perr
      IN /\ sec' = [rec EXCEPT !.Message = << >>]
         /\ saveErr' = e
         /\ IF e = Nil
            THEN /\ store' = PutItem(store, rec)
                 /\ life' = [life EXCEPT ![sec.Secret] = "Stored"]
                 /\ deposited' = [deposited EXCEPT
                                    ![sec.Secret] = <<[payload |-> b64, origin |-> sec.Ip]>>]
            ELSE UNCHANGED <<store, ghostVars>>
         /\ UNCHANGED <<now, ticks, created, callVars>>

(***************************************************************************)
(* Reveal Protocol                                                         *)
(***************************************************************************)
\* (mutant: the origin is not checked)
IpMismatchIgnored(item, addr) == FALSE

\* the origin check: len(s.Ip) > 0 && s.Ip != ip.String()
IpMismatch(item, addr) == item.Ip # "" /\ item.Ip # addr

\* the response of a successful destructive reveal
RevealedOf(item) == [Secret |-> item.Message, Exists |-> TRUE]

\* (mutant: the existence check hands out the payload)
ExistsOfWithSecret(item, key) == [Secret |-> item.Message, Exists |-> (item.Secret = key)]

\* (mutant: the comparison of the existence check is inverted)
ExistsOfInverted(item, key) == [ZeroRevealed EXCEPT !.Exists = (item.Secret # key)]

\* the response of the existence check
ExistsOf(item, key) == [ZeroRevealed EXCEPT !.Exists = (item.Secret = key)]

\* (mutant: a payload that decodes to nothing is accepted)
DecodeErrNoEmptyCheck(msg) == IF DecodeString(msg).bad THEN ErrDecode ELSE Nil

\* the decode check: the error Reveal returns for the stored payload, or nil
DecodeErr(msg) ==
    LET d == DecodeString(msg) IN
      IF d.bad THEN ErrDecode
      ELSE IF Len(d.out) = 0 THEN ErrDecodeEmpty
      ELSE Nil

\* json.Unmarshal(j, s) with error jerr: the field that does not fit (here
\* hours) keeps its zero value, the others are filled
JsonUnmarshal(item, jerr) == IF jerr = JsonError THEN [item EXCEPT !.Hours = 0] ELSE item

Outcome(p, item, r, e, q) == [pc |-> p, s |-> item, revealed |-> r, err |-> e, queries |-> q]

\* Reveal from its entry to the point before DeleteItem: validation, Query
\* (which returns qerr or st's items), origin check, existence check, decode.
\* qerr is what goes wrong on the way: nothing, the Query, UnmarshalListOfMaps
\* or json.Unmarshal; the error of json.Unmarshal is assigned and never read.
RevealLookup(st, key, addr, consume, qerr) ==
    IF BadId(key) THEN Outcome("done", ZeroSecret, ZeroRevealed, ErrBadId, 0)
    ELSE IF qerr \in StoreErrors THEN Outcome("done", ZeroSecret, ZeroRevealed, qerr, 1)
    ELSE LET r == Query(st, key) IN
      IF Len(r) < 1 THEN Outcome("done", ZeroSecret, ZeroRevealed, ErrNoItems, 1)
      ELSE LET item == JsonUnmarshal(r[1], qerr) IN
        IF IpMismatch(item, addr) THEN Outcome("done", item, ZeroRevealed, ErrNotFound, 1)
        ELSE IF ~consume THEN Outcome("done", item, ExistsOf(item, key), Nil, 1)
        ELSE LET e == DecodeErr(item.Message) IN
          IF e # Nil THEN Outcome("done", item, ZeroRevealed, e, 1)
          ELSE Outcome("delete", item, ZeroRevealed, Nil, 1)

\* (mutant: the payload is returned although the delete failed)
RevealFinishLeaky(item, derr) == [revealed |-> RevealedOf(item), err |-> derr]

\* Reveal after DeleteItem returned derr
RevealFinish(item, derr) ==
    IF derr # Nil THEN [revealed |-> ZeroRevealed, err |-> derr]
    ELSE [revealed |-> RevealedOf(item), err |-> Nil]

\* a call that returned the secret, or reported that it exists
Succeeded(p) == pc[p] = "done" /\ err[p] = Nil /\ revealed[p].Exists

RevealQuery(p, keys, addrs, qerrs) ==
    /\ pc[p] = "idle"
    /\ \E key \in keys, addr \in addrs, consume \in BOOLEAN, qerr \in qerrs :
         LET o == RevealLookup(store, key, addr, consume, qerr) IN
           /\ id' = [id EXCEPT ![p] = key]
           /\ ip' = [ip EXCEPT ![p] = addr]
           /\ reveal' = [reveal EXCEPT ![p] = consume]
           /\ pc' = [pc EXCEPT ![p] = o.pc]
           /\ s' = [s EXCEPT ![p] = o.s]
           /\ revealed' = [revealed EXCEPT ![p] = o.revealed]
           /\ err' = [err EXCEPT ![p] = o.err]
           /\ queries' = [queries EXCEPT ![p] = o.queries]
           /\ deletes' = [deletes EXCEPT ![p] = 0]
    /\ UNCHANGED <<store, now, ticks, secVars, life, deposited>>

RevealDelete(p) ==
    /\ pc[p] = "delete"
    /\ \E derr \in {Nil, RequestError} :
         LET f == RevealFinish(s[p], derr) IN
           /\ store' = IF derr = Nil THEN DeleteItem(store, id[p]) ELSE store
           /\ revealed' = [revealed EXCEPT ![p] = f.revealed]
           /\ err' = [err EXCEPT ![p] = f.err]
           /\ life' = IF derr = Nil /\ id[p] \in DOMAIN life
                      THEN [life EXCEPT ![id[p]] = "Revealed"] ELSE life
           /\ deposited' = IF derr = Nil /\ id[p] \in DOMAIN deposited
                           THEN [deposited EXCEPT ![id[p]] = << >>] ELSE deposited
    /\ pc' = [pc EXCEPT ![p] = "done"]
    /\ deletes' = [deletes EXCEPT ![p] = 1]
    /\ UNCHANGED <<now, ticks, secVars, id, ip, reveal, s, queries>>

\* the caller has its answer; the call's frame is gone
Return(p) ==
    /\ pc[p] = "done"
    /\ pc' = [pc EXCEPT ![p] = "idle"]
    /\ id' = [id EXCEPT ![p] = << >>]
    /\ ip' = [ip EXCEPT ![p] = ""]
    /\ reveal' = [reveal EXCEPT ![p] = FALSE]
    /\ s' = [s EXCEPT ![p] = ZeroSecret]
    /\ revealed' = [revealed EXCEPT ![p] = ZeroRevealed]
    /\ err' = [err EXCEPT ![p] = Nil]
    /\ queries' = [queries EXCEPT ![p] = 0]
    /\ deletes' = [deletes EXCEPT ![p] = 0]
    /\ UNCHANGED <<store, now, ticks, secVars, ghostVars>>

(***************************************************************************)
(* The environment: the clock, and the store's TTL garbage collection.     *)
(***************************************************************************)
Tick ==
    /\ ticks < MaxTicks
    /\ ticks' = ticks + 1
    /\ now' = now + TickHours * HourSecs
    /\ UNCHANGED <<store, secVars, callVars, ghostVars>>

\* the store's TTL removes the expired item under k
TTLExpireOf(k) ==
    /\ store[k] # << >>
    /\ Expired(store[k][1], now)
    /\ store' = [store EXCEPT ![k] = << >>]
    /\ life' = [life EXCEPT ![k] = "Expired"]
    /\ deposited' = [deposited EXCEPT ![k] = << >>]
    /\ UNCHANGED <<now, ticks, secVars, callVars>>

TTLExpire == \E k \in DOMAIN store : TTLExpireOf(k)

Init ==
    /\ store = [k \in GenIds |-> << >>]
    /\ now = 0
    /\ ticks = 0
    /\ sec = ZeroSecret
    /\ saveErr = Nil
    /\ created = << >>
    /\ pc = [p \in Procs |-> "idle"]
    /\ id = [p \in Procs |-> << >>]
    /\ ip = [p \in Procs |-> ""]
    /\ reveal = [p \in Procs |-> FALSE]
    /\ s = [p \in Procs |-> ZeroSecret]
    /\ revealed = [p \in Procs |-> ZeroRevealed]
    /\ err = [p \in Procs |-> Nil]
    /\ queries = [p \in Procs |-> 0]
    /\ deletes = [p \in Procs |-> 0]
    /\ life = [k \in GenIds |-> "Absent"]
    /\ deposited = [k \in GenIds |-> << >>]

\* no call of Reveal is in progress
Quiet == \A p \in Procs : pc[p] = "idle"

\* no caller is still holding an answer it has not taken.  Taking the answer
\* (Return) touches nothing shared, so it is ordered before any other step.
NoneDone == \A p \in Procs : pc[p] # "done"

(***************************************************************************)
(* Spec: the operations come one at a time (a single caller stands for     *)
(* callers taking turns); the clock and the store's TTL run on their own.  *)
(***************************************************************************)
Callers == {1}

Next ==
    \/ Quiet /\ NewSecret
    \/ Quiet /\ SetFields({0}, Origins)
    \/ Quiet /\ Save(Payloads)
    \/ \E p \in Callers : Quiet /\ RevealQuery(p, RevealIds, Addrs, {Nil} \cup StoreErrors)
    \/ \E p \in Callers : RevealDelete(p)
    \/ \E p \in Callers : Return(p)
    \/ NoneDone /\ Tick
    \/ NoneDone /\ TTLExpire

Spec == Init /\ [][Next]_vars

(***************************************************************************)
(* SpecRace: the callers of Reveal and the depositor run concurrently,     *)
(* interleaved at the store calls.                                         *)
(***************************************************************************)
RaceIds == GenIds
RaceAddrs == {"10.0.0.1"}
RacePayloads == {<<99, 68, 69, 61>>, <<99, 68, 61, 69>>}

NextRace ==
    \/ NoneDone /\ NewSecret
    \/ NoneDone /\ Save(RacePayloads)
    \/ \E p \in Procs : NoneDone /\ RevealQuery(p, RaceIds, RaceAddrs, {Nil})
    \/ \E p \in Procs : NoneDone /\ RevealDelete(p)
    \/ \E p \in Procs : Return(p)
    \/ NoneDone /\ Tick
    \/ NoneDone /\ TTLExpire

SpecRace == Init /\ [][NextRace]_vars

(***************************************************************************)
(* SpecIds: Reveal is called with every identifier of ManyIds, one call    *)
(* at a time, against a store that holds deposits.                         *)
(***************************************************************************)
NextIds ==
    \/ Quiet /\ NewSecret
    \/ Quiet /\ Save({<<99, 68, 69, 61>>})
    \/ \E p \in Callers : Quiet /\ RevealQuery(p, ManyIds, Addrs, {Nil})
    \/ \E p \in Callers : RevealDelete(p)
    \/ \E p \in Callers : Return(p)

SpecIds == Init /\ [][NextIds]_vars

(***************************************************************************)
(* SpecDeposit: the depositor's calls in any order (NewSecret, NewId,      *)
(* SetTimeout with any of HourChoices, Save) while the clock advances.     *)
(***************************************************************************)
DepositPayloads == {<<99, 68, 69, 61>>}

NextDeposit ==
    \/ NewSecret
    \/ NewId
    \/ SetFields(HourChoices, {""})
    \/ SetTimeout
    \/ Save(DepositPayloads)
    \/ Tick
    \/ TTLExpire

SpecDeposit == Init /\ [][NextDeposit]_vars

(***************************************************************************)
(* SpecErrors: Reveal, one call at a time, with every failure of the Query *)
(* and of the decoding of its result.                                      *)
(***************************************************************************)
DecodeErrors == {JsonError}

NextErrors ==
    \/ Quiet /\ NewSecret
    \/ Quiet /\ SetFields({1}, Origins)
    \/ Quiet /\ Save(DepositPayloads)
    \/ \E p \in Callers :
         Quiet /\ RevealQuery(p, GenIds, Addrs, {Nil} \cup StoreErrors \cup DecodeErrors)
    \/ \E p \in Callers : RevealDelete(p)
    \/ \E p \in Callers : Return(p)

SpecErrors == Init /\ [][NextErrors]_vars

(***************************************************************************)
(* SpecLive: deposits, existence checks and reveals one at a time, with    *)
(* fairness for what does not depend on the core: the clock advances, the  *)
(* store's TTL removes a record whose Expire has passed, and a caller      *)
(* takes its answer.  The TTL is fair to every record.                     *)
(***************************************************************************)
NextLive ==
    \/ Quiet /\ NewSecret
    \/ Quiet /\ SetFields({0}, Origins)
    \/ Quiet /\ Save(RacePayloads)
    \/ \E p \in Callers : Quiet /\ RevealQuery(p, GenIds, Addrs, {Nil})
    \/ \E p \in Callers : RevealDelete(p)
    \/ \E p \in Callers : Return(p)
    \/ Tick
    \/ TTLExpire

SpecLive ==
    /\ Init /\ [][NextLive]_vars
    /\ WF_vars(Tick)
    /\ \A k \in GenIds : WF_vars(TTLExpireOf(k))
    /\ \A p \in Callers : WF_vars(Return(p))


(***************************************************************************)
(* Properties                                                              *)
(***************************************************************************)
\* the step that begins caller p's call (validation, and the Query if any)
Starts(p) == pc[p] = "idle" /\ pc'[p] # "idle"

\* the step at which caller p's call returns
Completes(p) == pc[p] # "done" /\ pc'[p] = "done"

\* the payload decodes, and to something
Decodable(msg) == ~DecodeString(msg).bad /\ Len(DecodeString(msg).out) > 0

\* C1: concurrent destructive reveals of one identifier do not both succeed:
\* a destructive reveal never returns successfully when another one has
\* already returned the same deposit (the identifier is Revealed and nothing
\* has been put since; this call read the record before the other deleted it).
C1_AtMostOneReveal ==
    [][\A p \in Procs :
         (pc[p] = "delete" /\ pc'[p] = "done" /\ err'[p] = Nil
            /\ revealed'[p].Secret # << >>)
         => life[id[p]] # "Revealed"]_vars

\* C2: a destructive reveal returns a payload only if its own DeleteItem
\* succeeded (and the record is gone); when the DeleteItem fails, it returns
\* the store's error with an empty response, although decoding had succeeded.
C2_PayloadOnlyAfterDelete ==
    [][\A p \in Procs :
         Completes(p) /\ reveal'[p] =>
           /\ revealed'[p].Secret # << >> =>
                /\ pc[p] = "delete"
                /\ deletes'[p] = 1
                /\ err'[p] = Nil
                /\ store'[id'[p]] = << >>
           /\ pc[p] = "delete" /\ err'[p] # Nil =>
                /\ err'[p] \in StoreErrors
                /\ revealed'[p] = ZeroRevealed
                /\ revealed'[p].Secret = << >> /\ ~revealed'[p].Exists
                /\ Decodable(s[p].Message)
                /\ store' = store]_vars

C2_Witness ==
    \E p \in Procs :
      /\ pc[p] = "done" /\ reveal[p] /\ deletes[p] = 1
      /\ err[p] = RequestError /\ revealed[p] = ZeroRevealed
      /\ Decodable(s[p].Message)

\* C3: with the operations one at a time: once Save has put payload P under
\* identifier I with no origin, P decodable, a destructive reveal of I that
\* meets no store error returns P with exists = true; and a destructive reveal
\* of I after that one, with no put in between, fails with "no items found".
C3_RoundTrip ==
    [][\A p \in Procs :
         Completes(p) /\ reveal'[p] /\ id'[p] \in GenIds /\ err'[p] \notin StoreErrors =>
           /\ (/\ life[id'[p]] = "Stored"
               /\ deposited[id'[p]][1].origin = ""
               /\ Decodable(deposited[id'[p]][1].payload))
              => /\ err'[p] = Nil
                 /\ revealed'[p] = [Secret |-> deposited[id'[p]][1].payload, Exists |-> TRUE]
                 /\ life'[id'[p]] = "Revealed"
           /\ life[id'[p]] = "Revealed"
              => /\ err'[p] = ErrNoItems
                 /\ revealed'[p] = ZeroRevealed]_vars

C3_Witness ==
    \E p \in Procs :
      /\ pc[p] = "done" /\ reveal[p] /\ id[p] \in GenIds
      /\ err[p] = ErrNoItems
      /\ life[id[p]] = "Revealed"

\* C4: an existence check (consume = false) returns at once, issues no
\* DeleteItem, leaves the store as it was and returns no payload.
C4_ExistenceCheckFrame ==
    [][\A p \in Procs :
         Starts(p) /\ ~reveal'[p] =>
           /\ pc'[p] = "done"
           /\ deletes'[p] = 0
           /\ store' = store
           /\ revealed'[p].Secret = << >>]_vars

C4_Witness ==
    \E p \in Procs :
      /\ pc[p] = "done" /\ ~reveal[p] /\ err[p] = Nil /\ revealed[p].Exists
      /\ id[p] \in GenIds /\ store[id[p]] # << >>
      /\ store[id[p]][1].Message # << >>
      /\ deletes[p] = 0

\* C5: a record stored with a non-empty origin A: every Reveal from another
\* address fails with "not found", issues no DeleteItem and leaves the store
\* as it was; and (operations one at a time) a destructive reveal from A of a
\* stored, decodable deposit that meets no store error returns the payload.
C5_OriginBinding ==
    [][\A p \in Procs :
         /\ (/\ Starts(p) /\ id'[p] \in GenIds /\ err'[p] \notin StoreErrors
             /\ store[id'[p]] # << >>
             /\ store[id'[p]][1].Ip # ""
             /\ store[id'[p]][1].Ip # ip'[p])
            => /\ pc'[p] = "done"
               /\ err'[p] = ErrNotFound
               /\ revealed'[p] = ZeroRevealed
               /\ deletes'[p] = 0
               /\ store' = store
         /\ (/\ Completes(p) /\ reveal'[p] /\ id'[p] \in GenIds
             /\ err'[p] \notin StoreErrors
             /\ life[id'[p]] = "Stored"
             /\ deposited[id'[p]][1].origin = ip'[p]
             /\ Decodable(deposited[id'[p]][1].payload))
            => /\ err'[p] = Nil
               /\ revealed'[p] = [Secret |-> deposited[id'[p]][1].payload, Exists |-> TRUE]]_vars

C5_Witness ==
    \E p \in Procs :
      /\ pc[p] = "done" /\ err[p] = ErrNotFound /\ id[p] \in GenIds
      /\ store[id[p]] # << >>
      /\ store[id[p]][1].Ip \notin {"", ip[p]}
      /\ Decodable(store[id[p]][1].Message)

\* C6: the outcome of Reveal for an origin mismatch (error and response) is
\* the outcome it has, for the same arguments, when nothing is stored.
EmptyStore == [k \in GenIds |-> << >>]

C6_MismatchLooksAbsent ==
    \A p \in Procs :
      (/\ pc[p] = "done" /\ id[p] \in GenIds /\ err[p] \notin StoreErrors
       /\ store[id[p]] # << >>
       /\ store[id[p]][1].Ip \notin {"", ip[p]})
      => /\ err[p] = RevealLookup(EmptyStore, id[p], ip[p], reveal[p], Nil).err
         /\ revealed[p] = RevealLookup(EmptyStore, id[p], ip[p], reveal[p], Nil).revealed

\* C7: an identifier whose length is not 16, or that holds a letter outside
\* a-f / A-F, makes Reveal fail with "bad id" at once: no Query, no
\* DeleteItem, the store as it was.
OtherLetter(c) == c \in 71..90 \/ c \in 103..122

Malformed(str) == Len(str) # 16 \/ \E i \in 1..Len(str) : OtherLetter(str[i])

C7_MalformedIdNoStoreCall ==
    [][\A p \in Procs :
         Starts(p) /\ Malformed(id'[p]) =>
           /\ pc'[p] = "done"
           /\ err'[p] = ErrBadId
           /\ revealed'[p] = ZeroRevealed
           /\ queries'[p] = 0
           /\ deletes'[p] = 0
           /\ store' = store]_vars

C7_Witness ==
    \E p \in Procs :
      /\ pc[p] = "done" /\ err[p] = ErrBadId /\ queries[p] = 0 /\ deletes[p] = 0
      /\ Len(id[p]) = 16
      /\ \E i \in 1..Len(id[p]) : OtherLetter(id[p][i])
      /\ \E k \in GenIds : store[k] # << >>

\* C8: Reveal rejects an identifier with "bad id" exactly when it is not 16
\* characters of 0-9 and a-f.
LowerHex(c) == c \in 48..57 \/ c \in 97..102

C8_AcceptsExactlyLowerHex ==
    \A p \in Procs :
      pc[p] # "idle" =>
        ((err[p] = ErrBadId) <=>
           ~(Len(id[p]) = 16 /\ \A i \in 1..Len(id[p]) : LowerHex(id[p][i])))

\* C9: a destructive reveal that succeeds has issued one Query and then
\* exactly one DeleteItem and returns exists = true with a payload that
\* decodes to something; one whose stored payload does not decode, or decodes
\* to nothing, returns the decode error, issues no DeleteItem and leaves the
\* record stored.
C9_DeleteOnlyAfterDecode ==
    [][\A p \in Procs :
         /\ (Completes(p) /\ reveal'[p] /\ err'[p] = Nil)
            => /\ pc[p] = "delete" /\ queries[p] = 1 /\ deletes[p] = 0
               /\ queries'[p] = 1 /\ deletes'[p] = 1
               /\ revealed'[p].Exists
               /\ revealed'[p].Secret # << >>
               /\ Decodable(revealed'[p].Secret)
         /\ (/\ Starts(p) /\ reveal'[p] /\ id'[p] \in GenIds
             /\ err'[p] \notin StoreErrors
             /\ store[id'[p]] # << >>
             /\ store[id'[p]][1].Ip \in {"", ip'[p]}
             /\ ~Decodable(store[id'[p]][1].Message))
            => /\ pc'[p] = "done"
               /\ err'[p] \in {ErrDecode, ErrDecodeEmpty}
               /\ revealed'[p] = ZeroRevealed
               /\ deletes'[p] = 0
               /\ store' = store]_vars

C9_Witness ==
    \E p \in Procs :
      /\ pc[p] = "done" /\ reveal[p] /\ id[p] \in GenIds
      /\ err[p] = ErrDecodeEmpty /\ deletes[p] = 0
      /\ store[id[p]] # << >>
      /\ store[id[p]][1].Message # << >>

\* C10: once an identifier has been revealed or has expired it stays so:
\* there is no step out of Revealed or Expired, and no record is under the
\* identifier again (so that no later check or reveal of it can succeed).
C10_RevealedIsFinal ==
    [][\A k \in GenIds :
         life[k] \in {"Revealed", "Expired"} =>
           life'[k] = life[k] /\ store'[k] = << >>]_vars

\* C11: an existence check never answers exists = true for a record whose
\* expireAt has already passed: when it answers exists = true, the record is
\* in the store and its Expire is not before the current time.
C11_ExistsOnlyUnexpired ==
    \A p \in Procs :
      (pc[p] = "done" /\ ~reveal[p] /\ err[p] = Nil /\ revealed[p].Exists)
      => /\ id[p] \in GenIds
         /\ store[id[p]] # << >>
         /\ ~(store[id[p]][1].Expire < now)

C13_SaveDefault ==
    [][(Save(DepositPayloads) /\ saveErr' = Nil) =>
         /\ store'[sec.Secret] # << >>
         /\ sec.Expire = 0 => store'[sec.Secret][1].Expire = now + 24 * 3600
         /\ sec.Expire # 0 => store'[sec.Secret][1].Expire = sec.Expire
         /\ created # << >> => store'[sec.Secret][1].Expire = created[1] + 72 * 3600]_vars

\* Save has applied its default, after the clock had advanced, to an object
\* that did not come from NewSecret or SetTimeout
C13_Witness ==
    /\ saveErr = Nil
    /\ now > 0
    /\ created = << >>
    /\ sec.Secret \in GenIds
    /\ store[sec.Secret] # << >>
    /\ store[sec.Secret][1].Expire = now + 24 * 3600

\* C14: the payload stored under an identifier is set once: while a record
\* stays under the identifier, no step changes its payload.
C14_PayloadSetOnce ==
    [][\A k \in GenIds :
         (store[k] # << >> /\ store'[k] # << >>)
         => store'[k][1].Message = store[k][1].Message]_vars

\* C15 (as claimed): every record Save puts has, at the moment of the put,
\* an Expire strictly after the current time and at most 72 hours after it.
C15_ExpireInFutureAtPut ==
    [][(Save(DepositPayloads) /\ saveErr' = Nil) =>
         /\ store'[sec.Secret][1].Expire > now
         /\ store'[sec.Secret][1].Expire <= now + 72 * 3600]_vars

\* C15 (amended): Expire is strictly after the current time, and at most 72
\* hours after it, at the moment it is computed: by NewSecret, by an
\* accepted SetTimeout, or by Save's default for a zero Expire.  A record
\* that Save puts therefore has a positive Expire at most 72 hours after the
\* time of the put; it is after the time of the put unless the lifetime has
\* already run out between the computation and the Save.
C15_ExpireBoundedAtPut ==
    [][/\ NewSecret =>
            sec'.Expire > now /\ sec'.Expire <= now + 72 * 3600
       /\ (SetTimeout /\ saveErr' = Nil) =>
            sec'.Expire > now /\ sec'.Expire <= now + 72 * 3600
       /\ (Save(DepositPayloads) /\ saveErr' = Nil) =>
            /\ store'[sec.Secret][1].Expire > 0
            /\ store'[sec.Secret][1].Expire <= now + 72 * 3600
            /\ sec.Expire = 0 => store'[sec.Secret][1].Expire > now
            /\ (created # << >> /\ now < created[1] + 72 * 3600)
               => store'[sec.Secret][1].Expire > now]_vars

\* a record that Save has put stands in the store with its Expire passed
C15_Witness ==
    /\ saveErr = Nil
    /\ sec.Secret \in GenIds
    /\ store[sec.Secret] # << >>
    /\ store[sec.Secret][1].Expire = sec.Expire
    /\ sec.Expire < now
    /\ life[sec.Secret] = "Stored"

\* C16: a record is under an identifier from its put until a DeleteItem of a
\* Reveal for that identifier succeeds or the store's TTL removes it after
\* its Expire, and no other step removes it (no refused or failed call, no
\* existence check, no failed DeleteItem); while it is there, every
\* existence check from a permitted origin that meets no store error
\* answers exists = true.
C16_VisibleUntilRemoved ==
    [][/\ \A p \in Procs :
            (/\ Starts(p) /\ ~reveal'[p] /\ id'[p] \in GenIds
             /\ err'[p] \notin StoreErrors
             /\ life[id'[p]] = "Stored"
             /\ deposited[id'[p]][1].origin \in {"", ip'[p]})
            => /\ err'[p] = Nil
               /\ revealed'[p].Exists
       /\ \A k \in GenIds :
            /\ life[k] = "Stored" <=> store[k] # << >>
            /\ (store[k] # << >> /\ store'[k] = << >>)
               => \/ \E p \in Procs :
                       /\ pc[p] = "delete" /\ pc'[p] = "done"
                       /\ id[p] = k /\ err'[p] = Nil
                  \/ pc' = pc /\ store[k][1].Expire < now]_vars

\* an existence check from the bound origin answers true for a record whose
\* payload no destructive reveal can decode
C16_Witness ==
    \E p \in Procs :
      /\ pc[p] = "done" /\ ~reveal[p] /\ err[p] = Nil /\ revealed[p].Exists
      /\ id[p] \in GenIds /\ life[id[p]] = "Stored"
      /\ store[id[p]][1].Ip = ip[p]
      /\ ~Decodable(store[id[p]][1].Message)

\* C17: store errors are passed through without retry.  A Save whose PutItem
\* fails returns the store's error and has put nothing.  A Reveal whose
\* Query fails, or whose result cannot be decoded into a record
\* (UnmarshalListOfMaps or json.Unmarshal fails on an item found), returns
\* that error with the empty response after one Query and no DeleteItem.
C17_StoreErrorsPassedThrough ==
    [][/\ Save(DepositPayloads) =>
            /\ saveErr' \in {Nil, RequestError}
            /\ saveErr' # Nil => store' = store
       /\ \A p \in Procs : \A e \in StoreErrors \cup DecodeErrors :
            (/\ RevealQuery(p, GenIds, Addrs, {e})
             /\ queries'[p] = 1
             /\ e \in DecodeErrors => store[id'[p]] # << >>)
            => /\ pc'[p] = "done"
               /\ err'[p] = e
               /\ revealed'[p] = ZeroRevealed
               /\ deletes'[p] = 0
               /\ store' = store]_vars

\* C18: every stored record eventually leaves the store: a record put while
\* the clock has still to advance past its lifetime is eventually no longer
\* under its identifier, whatever the callers do (nothing, existence
\* checks, requests from another origin, reveals of a payload that does not
\* decode): if no reveal deletes it, the store's TTL removes it.
C18_EventuallyRemoved ==
    \A k \in GenIds :
      (life[k] = "Stored" /\ ticks < MaxTicks) ~> (store[k] = << >>)

\* the TTL has removed a record that no reveal had deleted
C18_Witness ==
    \E k \in GenIds : life[k] = "Expired" /\ store[k] = << >> /\ now > 0

\* C19: a step of a Reveal call for identifier I (its Query or its
\* DeleteItem) leaves the record under every other identifier as it was,
\* also while other callers' Reveal calls are in progress.
C19_RevealFrame ==
    [][\A p \in Procs :
         (Starts(p) \/ (pc[p] = "delete" /\ pc'[p] = "done"))
         => \A k \in GenIds : k # id'[p] => store'[k] = store[k]]_vars

\* a destructive reveal has removed its record while another identifier's
\* record stands and another caller is between its Query and its DeleteItem
C19_Witness ==
    \E p \in Procs, q \in Procs :
      /\ pc[p] = "done" /\ reveal[p] /\ err[p] = Nil /\ revealed[p].Secret # << >>
      /\ store[id[p]] = << >>
      /\ pc[q] = "delete" /\ id[q] # id[p]
      /\ store[id[q]] # << >>

\* C20: no secret is destroyed undisclosed by a reveal: when a destructive
\* reveal succeeds, the record its DeleteItem removes carries the payload
\* the call returns, whatever Save and other Reveal calls did between its
\* Query and its DeleteItem.
C20_DeletesWhatItReturns ==
    [][\A p \in Procs :
         (/\ pc[p] = "delete" /\ pc'[p] = "done" /\ err'[p] = Nil
          /\ store[id[p]] # << >>)
         => /\ store'[id[p]] = << >>
            /\ store[id[p]][1].Message = revealed'[p].Secret]_vars

=============================================================================
